---- MODULE Spec2Model ----
(***************************************************************************)
(* Model of camlistore's search handler (pkg/search/handler.go).           *)
(*                                                                         *)
(* Named search aliases: Handler.SetNamed / Handler.GetNamed over the      *)
(* content-addressed blob storage and the claim index.                     *)
(* Inbound edges: Handler.EdgesTo and its verification tasks.              *)
(* Streaming queries: Handler.GetRecentPermanodes and                      *)
(* Handler.GetPermanodesWithAttr over an index scan.                       *)
(* Notifications: the forwarder of NewHandler and the websocket hub.       *)
(***************************************************************************)
EXTENDS Integers, Sequences, FiniteSets, TLC

\* ------------------------------------------------------------------------
\* Bounds of the model
\* ------------------------------------------------------------------------

\* claim dates handed out by the clock (one per claim builder)
MaxClock == 6
\* permanode blobs in storage
MaxPermanodes == 3
\* blobs, permanodes and claims uploaded with camput
MaxCamput == 6

\* ------------------------------------------------------------------------
\* Strings, tokens and refs
\* ------------------------------------------------------------------------

\* the zero blob.Ref (not Valid)
NoRef == 0

Names == {"foo", "bar"}

\* A request body is a sequence of tokens [kw, arg]: a predicate such as
\* tag:cats is [kw |-> "tag", arg |-> "cats"], a bare literal has kw = "".
Tok(k, a) == [kw |-> k, arg |-> a]
LBrace == Tok("{", "")
RBrace == Tok("}", "")

EmptyText == << >>
TagCats == << Tok("tag", "cats") >>
Literal == << Tok("", "bar") >>
GoodJSON == << LBrace, Tok("json", "permanode"), RBrace >>
BadJSON == << LBrace, Tok("", "bar"), RBrace >>

\* every text a client sends, in a fixed enumeration
AllTexts == << EmptyText, TagCats, Literal, GoodJSON, BadJSON >>
Texts == { AllTexts[i] : i \in 1..Len(AllTexts) }
\* the bodies a client sends to setnamed
Substitutes == { EmptyText, TagCats, Literal, GoodJSON, BadJSON }

\* blob.SHA1FromString: the ref of a string blob is a function of its
\* content only, and different contents have different refs.
ContentRef(s) == CHOOSE i \in 1..Len(AllTexts) : AllTexts[i] = s

\* the refs of signed permanode blobs: hashes of a random value and the
\* signature time, numbered after the refs of the string blobs
PermaRefs == { Len(AllTexts) + k : k \in 1..(MaxPermanodes + 1) }
AllRefs == (1..Len(AllTexts)) \cup PermaRefs

\* the string form of every valid ref: "sha1-" followed by the digest
RefStrings == [ r \in AllRefs |-> "sha1-" \o ToString(r) ]

\* blob.Ref.String: the zero ref prints as the empty string
RefString(r) == IF r = NoRef THEN "" ELSE RefStrings[r]

\* blob.Parse: the ref a string denotes, ok = FALSE when it denotes none
Parse(str) ==
  IF \E r \in AllRefs : RefStrings[r] = str
    THEN [ok |-> TRUE, ref |-> CHOOSE r \in AllRefs : RefStrings[r] = str]
    ELSE [ok |-> FALSE, ref |-> NoRef]

\* strings.HasPrefix(in, "{") and strings.HasSuffix(in, "}")
HasPrefix(in) == Len(in) > 0 /\ in[1] = LBrace
HasSuffix(in) == Len(in) > 0 /\ in[Len(in)] = RBrace

\* json Decode into a Constraint: the body between the braces is one
\* constraint object
DecodesAsConstraint(in) ==
  /\ Len(in) = 3
  /\ in[1] = LBrace
  /\ in[2].kw = "json"
  /\ in[3] = RBrace

Keywords == {"tag", "named"}

\* parseExpression: a non-empty sequence of keyword predicates, implicitly
\* and-ed; a bare literal is an error
ParsesAsExpression(in) ==
  /\ Len(in) > 0
  /\ \A i \in 1..Len(in) : in[i].kw \in Keywords

\* evalSearchInput without its parse: only the empty input is an error
evalSearchInputNoParse(in) == Len(in) # 0

\* evalSearchInput: TRUE when it returns a constraint, FALSE when an error
evalSearchInput(in) ==
  IF Len(in) = 0 THEN FALSE
  ELSE IF HasPrefix(in) /\ HasSuffix(in) THEN DecodesAsConstraint(in)
  ELSE ParsesAsExpression(in)

\* ------------------------------------------------------------------------
\* State
\* ------------------------------------------------------------------------

VARIABLES
  blobs,       \* string blobs of storageAndIndex: set of [ref, text]
  permanodes,  \* refs of the signed permanode blobs of storageAndIndex
  claims,      \* signed claim blobs in the order they were stored
  clock,       \* the last time.Now() a claim builder was given
  last,        \* the last call and its response
  aliases,     \* history: for each name the substitute of the last SetNamed
               \* that returned without error, EmptyText when there was none
  camputs,     \* history: number of camput uploads
  edgeIndex,   \* the index's rows of edges to ToRef, in row order
  ecall,       \* the EdgesTo call in progress and its verification tasks
  scan,        \* the streaming query in progress and its index scan
  hub,         \* the websocket hub, its channels and its subscribers
  http         \* the last request or call of a function, and its outcome

namedVars == << blobs, permanodes, claims, clock, last, aliases, camputs >>
vars == << blobs, permanodes, claims, clock, last, aliases, camputs,
           edgeIndex, ecall, scan, hub, http >>

\* schema.NewSetAttributeClaim, dated when it is built
NewSetAttributeClaim(pn, attr, value, date) ==
  [pn |-> pn, attr |-> attr, value |-> value, date |-> date]

ClaimSet(cs) == { cs[i] : i \in 1..Len(cs) }

\* The index's fold of set-attribute claims: the value of the claim with the
\* latest date for (pn, attr), "" when there is none (Attr.Get).
PermanodeAttr(cs, pn, attr) ==
  LET mine == { c \in ClaimSet(cs) : c.pn = pn /\ c.attr = attr }
  IN IF mine = {} THEN ""
     ELSE (CHOOSE c \in mine : \A d \in mine : d.date <= c.date).value

\* Handler.Query with a PermanodeConstraint{Attr, Value}: the permanodes
\* whose current attribute has the value
QueryPermanodes(ps, cs, attr, value) ==
  { p \in ps : PermanodeAttr(cs, p, attr) = value }

\* sr.Blobs[0] of that query: the index fixes no order among several
\* matches, so any of them can come first; NoRef when len(sr.Blobs) < 1
FirstMatches(ps, cs, name) ==
  LET m == QueryPermanodes(ps, cs, "camliNamedSearch", name)
  IN IF m = {} THEN {NoRef} ELSE m

\* storageAndIndex.Fetch + ioutil.ReadAll
Stored(bs, br) == \E b \in bs : b.ref = br
Fetch(bs, br) == (CHOOSE b \in bs : b.ref = br).text

Response(op, name, arg, err, subst, pn, sref, writes, found) ==
  [op |-> op, Named |-> name, arg |-> arg, err |-> err,
   Substitute |-> subst, PermaRef |-> pn, SubstRef |-> sref,
   writes |-> writes, Blobs |-> found, retry |-> FALSE,
   aliasFound |-> FALSE]

Failed(op, name, arg, err, writes) ==
  Response(op, name, arg, err, EmptyText, NoRef, NoRef, writes, {})

NoCall == Failed("none", "", EmptyText, "none", << >>)

\* the handler is not called by an upload with camput
Uploaded == Failed("camput", "", EmptyText, "none", << >>)

\* what goes wrong in a collaborator during GetNamed
LookupErrs == {"none", "query", "fetch"}

\* GetNamed without the len(sr.Blobs) < 1 test
GetNamedOnNoLenCheck(bs, ps, cs, name, lookupErr, first) ==
  LET substRefS == PermanodeAttr(cs, first, "camliContent")
      br == Parse(substRefS)
  IN IF lookupErr = "query" THEN Failed("GetNamed", name, EmptyText, "query", << >>)
     ELSE IF ~br.ok THEN Failed("GetNamed", name, EmptyText, "invalidref", << >>)
     ELSE IF lookupErr = "fetch" THEN Failed("GetNamed", name, EmptyText, "fetch", << >>)
     ELSE IF ~Stored(bs, br.ref) THEN Failed("GetNamed", name, EmptyText, "missing", << >>)
     ELSE Response("GetNamed", name, EmptyText, "none",
                   Fetch(bs, br.ref), first, br.ref, << >>, {})

\* Handler.GetNamed on storage (bs, ps, cs); first is sr.Blobs[0].Blob
GetNamedOn(bs, ps, cs, name, lookupErr, first) ==
  LET substRefS == PermanodeAttr(cs, first, "camliContent")
      br == Parse(substRefS)
  IN IF lookupErr = "query" THEN Failed("GetNamed", name, EmptyText, "query", << >>)
     ELSE IF first = NoRef THEN Failed("GetNamed", name, EmptyText, "notfound", << >>)
     ELSE IF ~br.ok THEN Failed("GetNamed", name, EmptyText, "invalidref", << >>)
     ELSE IF lookupErr = "fetch" THEN Failed("GetNamed", name, EmptyText, "fetch", << >>)
     ELSE IF ~Stored(bs, br.ref) THEN Failed("GetNamed", name, EmptyText, "missing", << >>)
     ELSE Response("GetNamed", name, EmptyText, "none",
                   Fetch(bs, br.ref), first, br.ref, << >>, {})

\* a ReceiveString whose ref depends on what is already stored
receiveStringByCount(bs, s) ==
  LET r == ((ContentRef(s) + Cardinality(bs) - 1) % Len(AllTexts)) + 1
  IN [Ref |-> r, store |-> bs \cup { [ref |-> r, text |-> s] }]

\* Handler.receiveString of a string blob: the sized ref and the storage
receiveString(bs, s) ==
  [Ref |-> ContentRef(s),
   store |-> bs \cup { [ref |-> ContentRef(s), text |-> s] }]

\* receiveAndSign(schema.NewUnsignedPermanode()): the ref of the next
\* signed permanode blob, which no stored blob has
NewPermanode(ps) == Len(AllTexts) + Cardinality(ps) + 1

\* SetNamed writing the name of another alias into camliNamedSearch
SetNamedClaimsFixedName(found, pn, name, sref, now) ==
  IF found
    THEN << NewSetAttributeClaim(pn, "camliContent", RefString(sref), now + 1) >>
    ELSE << NewSetAttributeClaim(pn, "camliNamedSearch", "foo", now + 1),
            NewSetAttributeClaim(pn, "title", "named:" \o name, now + 2),
            NewSetAttributeClaim(pn, "camliContent", RefString(sref), now + 3) >>

\* SetNamed appending the camliContent claim before the claims of a new
\* alias
SetNamedClaimsContentFirst(found, pn, name, sref, now) ==
  IF found
    THEN << NewSetAttributeClaim(pn, "camliContent", RefString(sref), now + 1) >>
    ELSE << NewSetAttributeClaim(pn, "camliContent", RefString(sref), now + 1),
            NewSetAttributeClaim(pn, "camliNamedSearch", name, now + 2),
            NewSetAttributeClaim(pn, "title", "named:" \o name, now + 3) >>

\* the claim builders of SetNamed, in the order of its claims slice
SetNamedClaims(found, pn, name, sref, now) ==
  IF found
    THEN << NewSetAttributeClaim(pn, "camliContent", RefString(sref), now + 1) >>
    ELSE << NewSetAttributeClaim(pn, "camliNamedSearch", name, now + 1),
            NewSetAttributeClaim(pn, "title", "named:" \o name, now + 2),
            NewSetAttributeClaim(pn, "camliContent", RefString(sref), now + 3) >>

WriteNames(cs) == [ i \in 1..Len(cs) |-> cs[i].attr ]

\* the expression named:<name>
NamedExpr(name) == << Tok("named", name) >>

\* the search expressions a client sends to query
SearchExprs == { TagCats } \cup { NamedExpr(n) : n \in Names }

\* the permanodes a constraint without named: predicates matches: a
\* permanode constraint document matches every permanode, tag:x those
\* whose tag attribute is x
MatchesText(ps, cs, in) ==
  IF DecodesAsConstraint(in) THEN ps
  ELSE { p \in ps : \A i \in 1..Len(in) :
           in[i].kw = "tag" /\ PermanodeAttr(cs, p, "tag") = in[i].arg }

\* Handler.Query of an expression; the named keyword resolves its argument
\* with GetNamed and evaluates the substitute with evalSearchInput
QueryOn(bs, ps, cs, expr, lookupErr, first) ==
  IF ~ParsesAsExpression(expr) THEN Failed("Query", "", expr, "input", << >>)
  ELSE IF expr[1].kw = "named" THEN
    LET gr == GetNamedOn(bs, ps, cs, expr[1].arg, lookupErr, first)
    IN IF gr.err # "none" THEN Failed("Query", "", expr, gr.err, << >>)
       ELSE IF ~evalSearchInput(gr.Substitute)
         THEN Failed("Query", "", expr, "input", << >>)
       ELSE Response("Query", "", expr, "none", EmptyText, NoRef, NoRef, << >>,
                     MatchesText(ps, cs, gr.Substitute))
  ELSE Response("Query", "", expr, "none", EmptyText, NoRef, NoRef, << >>,
                MatchesText(ps, cs, expr))

\* ------------------------------------------------------------------------
\* Inbound edges: Handler.EdgesTo
\* ------------------------------------------------------------------------

\* rows of the index's edge table
MaxEdges == 3
\* attribute claims uploaded while edges are queried
MaxEdgeClaims == 3
\* permanodes that are sources of edges
MaxEdgeSources == 2

\* req.ToRef: the ref of the empty blob, which no alias has as its content
ToRef == ContentRef(EmptyText)

\* the blobs other than permanodes that refer to ToRef
FileSources == { ContentRef(TagCats) }

\* camtypes.Edge and EdgeItem
Edge(from, fromType) == [From |-> from, FromType |-> fromType]
EdgeItem(from, fromType) == [From |-> from, FromType |-> fromType]

\* index.IsBlobReferenceAttribute
IsBlobReferenceAttribute(attr) == attr \in {"camliContent", "camliMember"}

\* DescribeSync(br): Permanode is nil for a blob that is no permanode, else
\* its Attr maps every attribute with a claim to its current values
DescribeSync(cs, ps, br) ==
  LET names == { c.attr : c \in { d \in ClaimSet(cs) : d.pn = br } }
  IN [Permanode |-> br \in ps,
      Attr |-> [ a \in names |-> { PermanodeAttr(cs, br, a) } ]]

\* edgeOrError: edge is << >> for a nil edge, err is "" for a nil error
EdgeOrError(edge, err) == [edge |-> edge, err |-> err]

\* the error of a describe request that failed on br
DescribeErr(br) == "describe " \o RefString(br)

\* a verify that tests only that the source is a permanode
verifyNoAttrCheck(cs, ps, edge, toRefStr, descFails) ==
  IF descFails THEN EdgeOrError(<< >>, DescribeErr(edge.From))
  ELSE LET db == DescribeSync(cs, ps, edge.From)
       IN IF db.Permanode
            THEN EdgeOrError(<< EdgeItem(edge.From, "permanode") >>, "")
            ELSE EdgeOrError(<< >>, "")

\* a verify that looks for the target in every attribute
verifyAnyAttr(cs, ps, edge, toRefStr, descFails) ==
  IF descFails THEN EdgeOrError(<< >>, DescribeErr(edge.From))
  ELSE LET db == DescribeSync(cs, ps, edge.From)
           found == /\ db.Permanode
                    /\ \E attr \in DOMAIN db.Attr :
                         \E v \in db.Attr[attr] : v = toRefStr
       IN IF found
            THEN EdgeOrError(<< EdgeItem(edge.From, "permanode") >>, "")
            ELSE EdgeOrError(<< >>, "")

\* the verify closure of EdgesTo: what the task of an edge sends on resc
verify(cs, ps, edge, toRefStr, descFails) ==
  IF descFails THEN EdgeOrError(<< >>, DescribeErr(edge.From))
  ELSE LET db == DescribeSync(cs, ps, edge.From)
           found == /\ db.Permanode
                    /\ \E attr \in DOMAIN db.Attr :
                         /\ IsBlobReferenceAttribute(attr)
                         /\ \E v \in db.Attr[attr] : v = toRefStr
       IN IF found
            THEN EdgeOrError(<< EdgeItem(edge.From, "permanode") >>, "")
            ELSE EdgeOrError(<< >>, "")

\* the EdgesResponse, nil when EdgesTo returns an error
NilResponse == [nil |-> TRUE, EdgesTo |-> << >>]
EdgesResponse(edgeItems) == [nil |-> FALSE, EdgesTo |-> edgeItems]

\* no EdgesTo call yet
NoEdgesCall ==
  [pc |-> "idle", edges |-> << >>, task |-> << >>, res |-> << >>,
   edgeItems |-> << >>, verifying |-> 0, i |-> 0,
   resp |-> NilResponse, err |-> "", dirty |-> {}]

\* the dispatch loop of EdgesTo over the index's edges: a task for every
\* permanode edge, an item for every other edge
dispatch(edges) ==
  [pc |-> "fanin",
   edges |-> edges,
   task |-> [ k \in 1..Len(edges) |->
                IF edges[k].FromType = "permanode" THEN "spawned" ELSE "none" ],
   res |-> [ k \in 1..Len(edges) |-> EdgeOrError(<< >>, "") ],
   edgeItems |-> SelectSeq(edges, LAMBDA e : e.FromType # "permanode"),
   verifying |-> Cardinality({ k \in 1..Len(edges) : edges[k].FromType = "permanode" }),
   i |-> 0,
   resp |-> NilResponse, err |-> "", dirty |-> {}]

\* the end of the fan-in loop: EdgesTo returns its response
return(call) ==
  IF call.pc = "fanin" /\ call.i = call.verifying
    THEN [call EXCEPT !.pc = "done", !.resp = EdgesResponse(call.edgeItems)]
    ELSE call

\* a fan-in that skips a result with an error
receiveSkipErr(call, k) ==
  LET res == call.res[k]
      got == [call EXCEPT !.task[k] = "sent", !.i = call.i + 1]
  IN return([got EXCEPT !.edgeItems = call.edgeItems \o res.edge])

\* one iteration of the fan-in loop of EdgesTo: res := <-resc from task k
receive(call, k) ==
  LET res == call.res[k]
      got == [call EXCEPT !.task[k] = "sent", !.i = call.i + 1]
  IN IF res.err # ""
       THEN [got EXCEPT !.pc = "done", !.resp = NilResponse, !.err = res.err]
       ELSE return([got EXCEPT !.edgeItems = call.edgeItems \o res.edge])

\* ------------------------------------------------------------------------
\* Streaming queries: GetRecentPermanodes and GetPermanodesWithAttr
\* ------------------------------------------------------------------------

\* items an index scan emits at most
MaxScan == 3

\* const buffered: the channel buffer size
buffered == 32

\* the permanodes an index scan can emit
ScanItems == { Len(AllTexts) + 1, Len(AllTexts) + 2 }

ScanKinds == {"recent", "withattr"}

\* make(chan camtypes.RecentPermanode) and make(chan blob.Ref, buffered)
chanCap(kind) == IF kind = "recent" THEN 0 ELSE buffered

\* an error channel without a buffer
errchUnbuffered(kind) == 0

\* errch := make(chan error, 1), in both queries
errchCap(kind) == 1

\* the RecentResponse or WithAttrResponse, nil when the query returns an error
NilItems == [nil |-> TRUE, items |-> << >>]
ItemsResponse(items) == [nil |-> FALSE, items |-> items]

\* no streaming query yet
NoScan ==
  [kind |-> "", pc |-> "idle", n |-> 0, ch |-> << >>, closed |-> FALSE,
   prod |-> "returned", scanErr |-> "", errch |-> << >>, emitted |-> << >>,
   items |-> << >>, errRecv |-> FALSE, resp |-> NilItems, err |-> "",
   reqN |-> 0, via |-> ""]

\* the query up to its range loop: the channels are made and the goroutine
\* with the index scan is started with the limit n
NewScan(kind, n) ==
  [NoScan EXCEPT !.kind = kind, !.pc = "drain", !.n = n, !.prod = "scanning"]

\* an accumulation that puts the newest item first
accumulateFirst(items, res) == << res >> \o items

\* recent = append(recent, ...) and withAttr = append(withAttr, ...)
accumulate(items, res) == Append(items, res)

\* a range loop that ends as soon as the channel is closed
drainedAtClose(sc) == sc.closed

\* the end of "for res := range ch": ch is closed and empty
drained(sc) == sc.closed /\ sc.ch = << >>

\* the query returns
finish(sc, resp, err) == [sc EXCEPT !.pc = "done", !.resp = resp, !.err = err]

\* what follows the range loop
afterDrain(sc) ==
  [sc EXCEPT !.pc = IF sc.kind = "recent" THEN "errcheck" ELSE "meta"]

\* if err := <-errch; err != nil { return nil, err }
errCheck(sc) ==
  LET err == Head(sc.errch)
      got == [sc EXCEPT !.errch = Tail(sc.errch), !.errRecv = TRUE]
  IN IF err # "" THEN finish(got, NilItems, err)
     ELSE IF sc.kind = "recent" THEN [got EXCEPT !.pc = "meta"]
     ELSE finish(got, ItemsResponse(sc.items), "")

\* metaMap, err := dr.metaMapThumbs(...); if err != nil { return nil, err }
metaMapThumbs(sc, fails) ==
  IF fails THEN finish(sc, NilItems, "meta")
  ELSE IF sc.kind = "recent" THEN finish(sc, ItemsResponse(sc.items), "")
  ELSE [sc EXCEPT !.pc = "errcheck"]

\* ------------------------------------------------------------------------
\* Notifications: the forwarder of new blobs and the websocket hub
\* ------------------------------------------------------------------------

\* blobs that arrive at the index
MaxArrivals == 3
\* capacity of the outbound queue of a subscriber
MaxQueue == 2

\* the websocket connections
Subscribers == {"c1", "c2"}

\* the blobs that arrive: a permanode and a file
ArrivingBlobs == { Len(AllTexts) + 1, ContentRef(TagCats) }

\* bm.CamliType of an arriving blob
CamliType(br) == IF br \in PermaRefs THEN "permanode" ELSE "file"

\* capacity of the input channel of the hub
newBlobRecvCap == 2

\* NewHandler: the hub with no connection, and the listener channel of
\* subscribeToNewBlobs registered with the index; fwd is the blob the
\* forwarding goroutine holds, with the outcome of its GetBlobMeta
NewHub ==
  [listener |-> << >>, newBlobRecv |-> << >>, conns |-> {},
   queue |-> [ c \in Subscribers |-> << >> ],
   arrived |-> 0, did |-> "", skipped |-> {}, fwd |-> << >>]

\* for br := range ch, and sh.index.GetBlobMeta(br)
lookup(h, metaOK) ==
  [h EXCEPT !.listener = Tail(h.listener),
            !.fwd = << [br |-> Head(h.listener), ok |-> metaOK] >>]

\* a forwarder that puts the type in front of the types that wait
forwardNewestFirst(h, br, metaOK) ==
  IF metaOK
    THEN [h EXCEPT !.fwd = << >>,
                   !.newBlobRecv = << CamliType(br) >> \o h.newBlobRecv]
    ELSE [h EXCEPT !.fwd = << >>]

\* the rest of the loop body of the forwarding goroutine for the blob br:
\* the type is sent to the hub when GetBlobMeta returned no error
forward(h, br, metaOK) ==
  IF metaOK
    THEN [h EXCEPT !.fwd = << >>,
                   !.newBlobRecv = Append(h.newBlobRecv, CamliType(br))]
    ELSE [h EXCEPT !.fwd = << >>]

\* the subscriber has room in its outbound queue
HasRoom(h, c) == Len(h.queue[c]) < MaxQueue

\* a broadcast to every connection there ever was
deliverToAll(h, t) ==
  [ c \in Subscribers |->
      IF HasRoom(h, c) THEN Append(h.queue[c], t) ELSE h.queue[c] ]

\* the broadcast of the hub loop: the type is queued for every registered
\* subscriber with room, and dropped for a subscriber whose queue is full
deliver(h, t) ==
  [ c \in Subscribers |->
      IF c \in h.conns /\ HasRoom(h, c) THEN Append(h.queue[c], t)
      ELSE h.queue[c] ]

\* a hub loop that waits until every subscriber has room
canBroadcastWhenRoom(h) == \A c \in h.conns : HasRoom(h, c)

\* the hub loop never waits for a subscriber
canBroadcast(h) == TRUE

\* ------------------------------------------------------------------------
\* Requests: their parameters and the dispatch of ServeHTTP
\* ------------------------------------------------------------------------

\* how far the numbers a client sends go beyond the limits of the handler
MaxOver == 2

\* const maxResults, defaultNumResults
maxResults == 1000
defaultNumResults == 50

\* const minThumbSize, defThumbSize, maxThumbSize
minThumbSize == 25
defThumbSize == 50
maxThumbSize == 800

\* a sanitizeNumResults that caps at the limit
sanitizeNumResultsCapped(n) ==
  IF n <= 0 THEN defaultNumResults
  ELSE IF n > maxResults THEN maxResults
  ELSE n

\* sanitizeNumResults
sanitizeNumResults(n) ==
  IF n <= 0 \/ n > maxResults THEN defaultNumResults ELSE n

\* a form value is a sequence of characters
DigitChars == << "0", "1", "2", "3", "4", "5", "6", "7", "8", "9" >>
IsDigit(c) == \E i \in 1..10 : DigitChars[i] = c
DigitOf(c) == (CHOOSE i \in 1..10 : DigitChars[i] = c) - 1

\* strconv.Itoa, as a client uses it to build a form value
RECURSIVE FormatNat(_)
FormatNat(n) ==
  IF n < 10 THEN << DigitChars[n + 1] >>
  ELSE FormatNat(n \div 10) \o << DigitChars[(n % 10) + 1] >>

Itoa(n) == IF n < 0 THEN << "-" >> \o FormatNat(0 - n) ELSE FormatNat(n)

\* the value of a sequence of digits
RECURSIVE ParseNat(_)
ParseNat(s) ==
  IF s = << >> THEN 0
  ELSE 10 * ParseNat(SubSeq(s, 1, Len(s) - 1)) + DigitOf(s[Len(s)])

\* strconv.Atoi: the number and ok = FALSE with the number 0 on a syntax
\* error
Atoi(s) ==
  LET signed == Len(s) > 0 /\ s[1] \in {"-", "+"}
      digits == IF signed THEN Tail(s) ELSE s
  IN IF digits = << >> \/ \E i \in 1..Len(digits) : ~IsDigit(digits[i])
       THEN [val |-> 0, ok |-> FALSE]
       ELSE [val |-> IF signed /\ s[1] = "-" THEN 0 - ParseNat(digits)
                                              ELSE ParseNat(digits),
             ok |-> TRUE]

\* thumbnailSizeStr: the thumbnails parameter of a request
thumbnailSizeStr(s) ==
  IF s = << >> THEN 0
  ELSE LET i == Atoi(s).val
       IN IF i >= minThumbSize /\ i <= maxThumbSize THEN i ELSE defThumbSize

\* a thumbnailSize that clamps for the recent query too
RecentThumbnailSizeClamped(v) ==
  IF v = 0 THEN 0
  ELSE IF v < minThumbSize THEN minThumbSize
  ELSE IF v > maxThumbSize THEN maxThumbSize
  ELSE v

\* RecentRequest.thumbnailSize
RecentThumbnailSize(v) ==
  IF v = 0 THEN 0
  ELSE IF v < minThumbSize \/ v > maxThumbSize THEN defThumbSize
  ELSE v

\* a thumbnailSize that falls back to the default for the by-attribute query
WithAttrThumbnailSizeDefault(v) ==
  IF v = 0 THEN 0
  ELSE IF v < minThumbSize \/ v > maxThumbSize THEN defThumbSize
  ELSE v

\* WithAttrRequest.thumbnailSize
WithAttrThumbnailSize(v) ==
  IF v = 0 THEN 0
  ELSE IF v < minThumbSize THEN minThumbSize
  ELSE IF v > maxThumbSize THEN maxThumbSize
  ELSE v

\* the numbers a caller passes as N and as thumbnail size
NumInputs == (0 - MaxOver)..(maxResults + MaxOver)
ThumbInputs == (0 - MaxOver)..(maxThumbSize + MaxOver)

\* the form values a client sends as n, max and thumbnails, and as permanode
NumParams == { << >>, << "x" >>, Itoa(0), Itoa(2), Itoa(maxResults + 1) }
ThumbParams ==
  { << >>, Itoa(0), Itoa(minThumbSize - 1), Itoa(minThumbSize),
    Itoa(maxThumbSize + 1), Itoa(0 - 1) }
RefParams == { "", "x", RefString(Len(AllTexts) + 1) }

Form(n, max, thumbnails, permanode) ==
  [n |-> n, max |-> max, thumbnails |-> thumbnails, permanode |-> permanode]
EmptyForm == Form(<< >>, << >>, << >>, "")

\* RecentRequest.fromHTTP
RecentFromHTTP(form) ==
  [panic |-> "",
   N |-> Atoi(form.n).val,
   ThumbnailSize |-> thumbnailSizeStr(form.thumbnails)]

\* a WithAttrRequest.fromHTTP that ignores the error of Atoi
WithAttrFromHTTPNoPanic(form) ==
  [panic |-> "",
   N |-> sanitizeNumResults(Atoi(form.max).val),
   ThumbnailSize |-> thumbnailSizeStr(form.thumbnails)]

\* WithAttrRequest.fromHTTP: panics on a max that is no number, and
\* sanitizes N
WithAttrFromHTTP(form) ==
  IF form.max # << >> /\ ~Atoi(form.max).ok
    THEN [panic |-> "max", N |-> 0, ThumbnailSize |-> 0]
    ELSE [panic |-> "",
          N |-> sanitizeNumResults(Atoi(form.max).val),
          ThumbnailSize |-> thumbnailSizeStr(form.thumbnails)]

\* ClaimsRequest.fromHTTP: httputil.MustGetBlobRef panics on a missing or
\* malformed permanode
ClaimsFromHTTP(form) ==
  IF ~Parse(form.permanode).ok
    THEN [panic |-> "permanode", Permanode |-> NoRef]
    ELSE [panic |-> "", Permanode |-> Parse(form.permanode).ref]

\* the bodies a handler writes
ErrorEnvelope(errorType) == [error |-> TRUE, errorType |-> errorType]
ResultBody == [error |-> FALSE, errorType |-> ""]

\* what a request did: the handlers ServeHTTP invoked, the panics recovered,
\* the operations started and the bodies written
Outcome(invoked, recovered, started, body) ==
  [invoked |-> invoked, recovered |-> recovered, started |-> started, body |-> body]

\* an endpoint handler: defer httputil.RecoverJSON, the parser, the
\* operation, and ServeJSONError or ReturnJSON
serveParsed(fn, req, operation, opFails) ==
  IF req.panic # ""
    THEN Outcome(<< fn >>, 1, << >>, << ErrorEnvelope("input") >>)
    ELSE Outcome(<< fn >>, 0, << operation >>,
                 IF opFails THEN << ErrorEnvelope("server") >>
                            ELSE << ResultBody >>)

\* Handler.serveRecentPermanodes
serveRecentPermanodes(form, opFails) ==
  LET rr == RecentFromHTTP(form)
  IN serveParsed("serveRecentPermanodes", rr,
                 [op |-> "GetRecentPermanodes",
                  n |-> sanitizeNumResults(rr.N),
                  thumbnailSize |-> RecentThumbnailSize(rr.ThumbnailSize)],
                 opFails)

\* Handler.servePermanodesWithAttr
servePermanodesWithAttr(form, opFails) ==
  LET wr == WithAttrFromHTTP(form)
  IN serveParsed("servePermanodesWithAttr", wr,
                 [op |-> "GetPermanodesWithAttr",
                  n |-> wr.N,
                  thumbnailSize |-> WithAttrThumbnailSize(wr.ThumbnailSize)],
                 opFails)

\* Handler.serveClaims
serveClaims(form, opFails) ==
  LET cr == ClaimsFromHTTP(form)
  IN serveParsed("serveClaims", cr,
                 [op |-> "GetClaims", n |-> 0, thumbnailSize |-> 0], opFails)

\* var getHandler and var postHandler: the handler of a path suffix
getHandler ==
  [ws |-> "serveWebSocket",
   recent |-> "serveRecentPermanodes",
   permanodeattr |-> "servePermanodesWithAttr",
   describe |-> "serveDescribe",
   claims |-> "serveClaims",
   files |-> "serveFiles",
   getnamed |-> "serveGetNamed",
   signerattrvalue |-> "serveSignerAttrValue",
   signerpaths |-> "serveSignerPaths",
   edgesto |-> "serveEdgesTo"]

postHandler ==
  [describe |-> "serveDescribe",
   query |-> "serveQuery",
   setnamed |-> "serveSetNamed"]

\* a map without entries, and the nil map
NoHandlers == [ k \in {} |-> "" ]

\* httputil.IsGet
IsGet(method) == method = "GET"

\* strings.TrimPrefix(suffix, "camli/search/") on a path of segments
TrimPrefix(suffix) ==
  IF Len(suffix) >= 2 /\ suffix[1] = "camli" /\ suffix[2] = "search"
    THEN SubSeq(suffix, 3, Len(suffix))
    ELSE suffix

\* handlers[key]: "" for the nil func of a key the map has not
Lookup(handlers, key) ==
  IF Len(key) = 1 /\ key[1] \in DOMAIN handlers THEN handlers[key[1]] ELSE ""

\* the handler fn runs
invoke(fn, form, opFails) ==
  IF fn = "serveRecentPermanodes" THEN serveRecentPermanodes(form, opFails)
  ELSE IF fn = "servePermanodesWithAttr" THEN servePermanodesWithAttr(form, opFails)
  ELSE IF fn = "serveClaims" THEN serveClaims(form, opFails)
  ELSE Outcome(<< fn >>, 0, << [op |-> fn, n |-> 0, thumbnailSize |-> 0] >>,
               IF opFails THEN << ErrorEnvelope("server") >> ELSE << ResultBody >>)

\* a ServeHTTP that uses the GET table for every method but POST
ServeHTTPDefaultGet(method, suffix, form, opFails) ==
  LET handlers == IF method = "POST" THEN postHandler ELSE getHandler
      fn == Lookup(handlers, TrimPrefix(suffix))
  IN IF fn # "" THEN invoke(fn, form, opFails)
     ELSE Outcome(<< >>, 0, << >>, << ErrorEnvelope("input") >>)

\* Handler.ServeHTTP
ServeHTTPOn(method, suffix, form, opFails) ==
  LET handlers == IF IsGet(method) THEN getHandler
                  ELSE IF method = "POST" THEN postHandler
                  ELSE NoHandlers
      fn == Lookup(handlers, TrimPrefix(suffix))
  IN IF fn # "" THEN invoke(fn, form, opFails)
     ELSE Outcome(<< >>, 0, << >>, << ErrorEnvelope("input") >>)

\* the methods and path suffixes of the requests
Methods == {"GET", "POST", "PUT"}
Endpoints == (DOMAIN getHandler) \cup (DOMAIN postHandler) \cup {"bogus"}
Suffixes ==
  { << e >> : e \in Endpoints } \cup
  { << "camli", "search", e >> : e \in Endpoints } \cup
  { << >>, << "camli", "search" >>,
    << "camli", "search", "camli", "search", "recent" >>,
    << "recent", "recent" >> }

\* the endpoints whose handler parses the form
ParsedEndpoints == {"recent", "permanodeattr", "claims"}

\* no request yet
NoRequest == [op |-> "none", in |-> << >>, out |-> << >>]

\* the longest list of claims the index returns
MaxClaims == 3

\* the claims of a permanode: a blob and the date it was signed
ClaimRefs == 1..MaxClaims
ClaimDates == {1, 2}
Claim == [BlobRef : ClaimRefs, Date : ClaimDates]

\* what index.AppendClaims may return for a permanode and a filter
ClaimLists == UNION { [1..k -> Claim] : k \in 0..MaxClaims }

\* ClaimsByDate ordered the other way around
ClaimsByDateLessDescending(a, b) == a.Date > b.Date

\* camtypes.ClaimsByDate.Less: the earlier claim comes first
ClaimsByDateLess(a, b) == a.Date < b.Date

\* the orders of n elements
Orders(n) ==
  { f \in [1..n -> 1..n] : \A i, j \in 1..n : i # j => f[i] # f[j] }

\* sort.Sort(camtypes.ClaimsByDate(claims)): the claims in one of the
\* orders that Less accepts; sort.Sort does not promise which one when
\* claims compare equal
sortSort(cs) ==
  { [i \in 1..Len(cs) |-> cs[f[i]]] :
      f \in { g \in Orders(Len(cs)) :
                \A i \in 1..(Len(cs) - 1) :
                  ~ClaimsByDateLess(cs[g[i + 1]], cs[g[i]]) } }

\* the ClaimsItem of every claim, in the order of the claims
ClaimsItems(cs) ==
  [i \in 1..Len(cs) |-> [BlobRef |-> cs[i].BlobRef, Date |-> cs[i].Date]]

NilClaims == [nil |-> TRUE, Claims |-> << >>]
ClaimsResponse(items) == [nil |-> FALSE, Claims |-> items]

\* Handler.GetClaims on a permanode, with what the index returns for it
\* and the order sort.Sort left the claims in
GetClaims(valid, indexErr, sorted) ==
  IF ~valid THEN [res |-> NilClaims, err |-> "nil permanode"]
  ELSE IF indexErr THEN [res |-> NilClaims, err |-> "getting claims"]
  ELSE [res |-> ClaimsResponse(ClaimsItems(sorted)), err |-> ""]

\* the rows index.EdgesTo returns for a target
EdgeRows ==
  { << >>,
    << Edge(Len(AllTexts) + 1, "permanode") >>,
    << Edge(Len(AllTexts) + 1, "permanode"), Edge(ContentRef(TagCats), "file") >> }

\* an EdgesTo that returns the error of index.EdgesTo
EdgesToOnReturnsErr(edges, indexFails) ==
  IF indexFails
    THEN [panic |-> FALSE,
          call |-> [NoEdgesCall EXCEPT !.pc = "done", !.err = "index"]]
    ELSE [panic |-> FALSE, call |-> return(dispatch(edges))]

\* Handler.EdgesTo up to its fan-in loop: panic(err) when index.EdgesTo
\* fails, else the dispatch over the rows; call is the state of the call,
\* with its tasks, its response and its error result
EdgesToOn(edges, indexFails) ==
  IF indexFails
    THEN [panic |-> TRUE, call |-> NoEdgesCall]
    ELSE [panic |-> FALSE, call |-> return(dispatch(edges))]

\* Handler.serveEdgesTo on a request with a valid blobref: RecoverJSON
\* writes the error of a panic, else ServeJSONError or ReturnJSON writes
\* what EdgesTo returns
serveEdgesTo(edges, indexFails, opFails) ==
  LET r == EdgesToOn(edges, indexFails)
  IN IF r.panic
       THEN Outcome(<< "serveEdgesTo" >>, 1, << "EdgesTo" >>,
                    << ErrorEnvelope("server") >>)
       ELSE Outcome(<< "serveEdgesTo" >>, 0, << "EdgesTo" >>,
                    IF opFails \/ r.call.err # ""
                      THEN << ErrorEnvelope("server") >>
                      ELSE << ResultBody >>)

\* what a caller that is not a handler has of the call: no body
NotServed == Outcome(<< >>, 0, << "EdgesTo" >>, << >>)

\* ------------------------------------------------------------------------
\* Operations
\* ------------------------------------------------------------------------

Init ==
  /\ blobs = {}
  /\ permanodes = {}
  /\ claims = << >>
  /\ clock = 0
  /\ last = NoCall
  /\ aliases = [ n \in Names |-> EmptyText ]
  /\ camputs = 0
  /\ edgeIndex = << >>
  /\ ecall = NoEdgesCall
  /\ scan = NoScan
  /\ hub = NewHub
  /\ http = NoRequest

\* Handler.GetNamed
GetNamed(name, lookupErr, first) ==
  /\ last' = GetNamedOn(blobs, permanodes, claims, name, lookupErr, first)
  /\ UNCHANGED << blobs, permanodes, claims, clock, aliases, camputs >>

\* history: a SetNamed call that repeats the call before it, which failed
\* after its validation
IsRetry(name, subst) ==
  /\ last.op = "SetNamed"
  /\ last.err = "storage"
  /\ last.Named = name
  /\ last.arg = subst

\* Handler.SetNamed.  failAt = k makes the k-th write of the call
\* (receiveString or receiveAndSign) return an error, 0 makes none fail; the
\* call has no step for a failAt beyond its last write.
SetNamed(name, subst, failAt, lookupErr, first) ==
  IF ~evalSearchInput(subst) THEN
    /\ last' = Failed("SetNamed", name, subst, "input", << >>)
    /\ UNCHANGED << blobs, permanodes, claims, clock, aliases, camputs >>
  ELSE IF failAt = 1 THEN
    /\ last' = Failed("SetNamed", name, subst, "storage", << >>)
    /\ UNCHANGED << blobs, permanodes, claims, clock, aliases, camputs >>
  ELSE
    LET ssref == receiveString(blobs, subst)
        bs == ssref.store
        sref == ssref.Ref
        gr == GetNamedOn(bs, permanodes, claims, name, lookupErr, first)
        found == gr.err = "none"
    IN IF ~found /\ failAt = 2 THEN
         /\ blobs' = bs
         /\ last' = Failed("SetNamed", name, subst, "storage", << "content" >>)
              /\ UNCHANGED << permanodes, claims, clock, aliases, camputs >>
       ELSE
         LET pn == IF found THEN gr.PermaRef ELSE NewPermanode(permanodes)
             builders == SetNamedClaims(found, pn, name, sref, clock)
             \* index of the first write of the claims loop
             base == IF found THEN 2 ELSE 3
             nOK == IF failAt >= base THEN failAt - base ELSE Len(builders)
             written == SubSeq(builders, 1, nOK)
             w == << "content" >> \o (IF found THEN << >> ELSE << "permanode" >>)
                    \o WriteNames(written)
         IN /\ failAt < base + Len(builders)
            /\ blobs' = bs
            /\ permanodes' = IF found THEN permanodes ELSE permanodes \cup {pn}
            /\ claims' = claims \o written
            /\ clock' = clock + Len(builders)
            /\ last' = IF nOK < Len(builders)
                         THEN [Failed("SetNamed", name, subst, "storage", w)
                                 EXCEPT !.aliasFound = found]
                         ELSE [Response("SetNamed", name, subst, "none",
                                        EmptyText, pn, sref, w, {})
                                 EXCEPT !.retry = IsRetry(name, subst),
                                        !.aliasFound = found]
            /\ aliases' = IF nOK < Len(builders) THEN aliases
                            ELSE [aliases EXCEPT ![name] = subst]
            /\ UNCHANGED camputs

\* Handler.serveQuery
Query(expr, lookupErr, first) ==
  /\ last' = QueryOn(blobs, permanodes, claims, expr, lookupErr, first)
  /\ UNCHANGED << blobs, permanodes, claims, clock, aliases, camputs >>

\* the writes one SetNamed makes at most: the content blob, the permanode
\* and the claims of a new alias
MaxWrites == 2 + Len(SetNamedClaims(FALSE, NoRef, "", NoRef, 0))

\* the failures that change the outcome of a call: none before the
\* validation has passed, no lookup failure when the lookup is not reached
Reached(subst, failAt, lookupErr) ==
  /\ ~evalSearchInput(subst) => failAt = 0 /\ lookupErr = "none"
  /\ failAt = 1 => lookupErr = "none"

\* a client calls getnamed
CallGetNamed ==
  /\ UNCHANGED << edgeIndex, ecall, scan, hub, http >>
  /\ \E name \in Names, lookupErr \in LookupErrs :
       \E first \in FirstMatches(permanodes, claims, name) :
         GetNamed(name, lookupErr, first)

\* a client calls setnamed; a Fetch error in its lookup has the effect of a
\* Query error on SetNamed, so the Query error stands for both
CallSetNamed ==
  /\ UNCHANGED << edgeIndex, ecall, scan, hub, http >>
  /\ clock + 3 <= MaxClock
  /\ Cardinality(permanodes) < MaxPermanodes
  /\ \E name \in Names, subst \in Substitutes, failAt \in 0..MaxWrites,
        lookupErr \in {"none", "query"} :
       /\ Reached(subst, failAt, lookupErr)
       /\ \E first \in FirstMatches(permanodes, claims, name) :
            SetNamed(name, subst, failAt, lookupErr, first)

\* a client calls query
CallQuery ==
  /\ UNCHANGED << edgeIndex, ecall, scan, hub, http >>
  /\ \E expr \in SearchExprs, lookupErr \in LookupErrs :
       /\ expr[1].kw # "named" => lookupErr = "none"
       /\ \E first \in FirstMatches(permanodes, claims, expr[1].arg) :
            Query(expr, lookupErr, first)

\* camput permanode -tag cats: a new permanode and its tag claim
CamputPermanodeTag ==
  /\ UNCHANGED << edgeIndex, ecall, scan, hub, http >>
  /\ clock + 1 <= MaxClock
  /\ Cardinality(permanodes) < MaxPermanodes
  /\ camputs < MaxCamput
  /\ LET pn == NewPermanode(permanodes)
     IN /\ permanodes' = permanodes \cup {pn}
        /\ claims' = Append(claims, NewSetAttributeClaim(pn, "tag", "cats", clock + 1))
        /\ clock' = clock + 1
        /\ camputs' = camputs + 1
        /\ last' = Uploaded
        /\ UNCHANGED << blobs, aliases >>

\* camput blob: a string blob uploaded by a client
CamputBlob ==
  /\ UNCHANGED << edgeIndex, ecall, scan, hub, http >>
  /\ camputs < MaxCamput
  /\ \E s \in { TagCats } :
       /\ blobs' = receiveString(blobs, s).store
       /\ camputs' = camputs + 1
       /\ last' = Uploaded
       /\ UNCHANGED << permanodes, claims, clock, aliases >>

\* camput permanode
CamputPermanode ==
  /\ UNCHANGED << edgeIndex, ecall, scan, hub, http >>
  /\ Cardinality(permanodes) < MaxPermanodes
  /\ camputs < MaxCamput
  /\ LET pn == NewPermanode(permanodes)
     IN /\ permanodes' = permanodes \cup {pn}
        /\ camputs' = camputs + 1
        /\ last' = Uploaded
        /\ UNCHANGED << blobs, claims, clock, aliases >>

\* the attribute claims a client uploads for an alias
CamputAttrs ==
  { << "camliNamedSearch", "foo" >>,
    << "camliNamedSearch", "bar" >>,
    << "camliContent", RefString(ContentRef(TagCats)) >>,
    << "camliContent", "bar" >> }

\* camput attr <permanode> <attr> <value>
CamputAttr ==
  /\ UNCHANGED << edgeIndex, ecall, scan, hub, http >>
  /\ clock + 1 <= MaxClock
  /\ camputs < MaxCamput
  /\ \E pn \in permanodes, av \in CamputAttrs :
       /\ claims' = Append(claims, NewSetAttributeClaim(pn, av[1], av[2], clock + 1))
       /\ clock' = clock + 1
       /\ camputs' = camputs + 1
       /\ last' = Uploaded
       /\ UNCHANGED << blobs, permanodes, aliases >>

\* the search handler serving getnamed, setnamed and query, and a client
\* that tags permanodes
Next ==
  \/ CallGetNamed
  \/ CallSetNamed
  \/ CallQuery
  \/ CamputPermanodeTag

Spec == Init /\ [][Next]_vars

\* a client that uploads alias permanodes and their claims itself and
\* reads them with getnamed
NextDirect ==
  \/ CallGetNamed
  \/ CamputBlob
  \/ CamputPermanode
  \/ CamputAttr

SpecDirect == Init /\ [][NextDirect]_vars

\* ------------------------------------------------------------------------
\* Operations on edges
\* ------------------------------------------------------------------------

\* camput permanode: a permanode that becomes the source of edges
NewEdgeSource ==
  /\ Cardinality(permanodes) < MaxEdgeSources
  /\ CamputPermanode

\* the attribute claims a client uploads on the sources
EdgeAttrs ==
  { << "camliContent", RefString(ToRef) >>,
    << "camliContent", RefString(ContentRef(TagCats)) >>,
    << "title", RefString(ToRef) >> }

\* history: the permanodes that got a claim since the call began
Dirtied(call, pn) ==
  IF call.pc # "idle" THEN [call EXCEPT !.dirty = call.dirty \cup {pn}] ELSE call

\* camput attr on a source: the index folds the claim into the attributes
\* of the permanode and adds a row to its edge table when the attribute is
\* blobref-valued and the value is ToRef; it removes no row
EdgeClaim ==
  /\ clock + 1 <= MaxClock
  /\ camputs < MaxCamput
  /\ Len(claims) < MaxEdgeClaims
  /\ \E pn \in permanodes, av \in EdgeAttrs :
       LET row == IsBlobReferenceAttribute(av[1]) /\ av[2] = RefString(ToRef)
       IN /\ row => Len(edgeIndex) < MaxEdges
          /\ claims' = Append(claims, NewSetAttributeClaim(pn, av[1], av[2], clock + 1))
          /\ clock' = clock + 1
          /\ camputs' = camputs + 1
          /\ last' = Uploaded
          /\ edgeIndex' = IF row THEN Append(edgeIndex, Edge(pn, "permanode"))
                                 ELSE edgeIndex
          /\ ecall' = Dirtied(ecall, pn)
          /\ UNCHANGED << blobs, permanodes, aliases, scan, hub, http >>

\* a file blob that refers to ToRef is indexed
IndexFileEdge ==
  /\ Len(edgeIndex) < MaxEdges
  /\ \E f \in FileSources :
       /\ \A k \in 1..Len(edgeIndex) : edgeIndex[k].From # f
       /\ edgeIndex' = Append(edgeIndex, Edge(f, "file"))
  /\ UNCHANGED << namedVars, ecall, scan, hub, http >>

\* Handler.EdgesTo up to its fan-in loop: index.EdgesTo and the dispatch
EdgesToStart ==
  /\ ecall.pc \in {"idle", "done"}
  /\ ecall' = return(dispatch(edgeIndex))
  /\ UNCHANGED << namedVars, edgeIndex, scan, hub, http >>

\* the goroutine of verify(edge) runs up to its send on resc
VerifyTask ==
  /\ \E k \in 1..Len(ecall.edges), descFails \in BOOLEAN :
       /\ ecall.task[k] = "spawned"
       /\ ecall' = [ecall EXCEPT
                      !.task[k] = "ready",
                      !.res[k] = verify(claims, permanodes, ecall.edges[k],
                                        RefString(ToRef), descFails)]
  /\ UNCHANGED << namedVars, edgeIndex, scan, hub, http >>

\* res := <-resc: resc has no buffer, the send of a task and the receive of
\* the fan-in loop happen together
FanIn ==
  /\ ecall.pc = "fanin"
  /\ \E k \in 1..Len(ecall.edges) :
       /\ ecall.task[k] = "ready"
       /\ ecall' = receive(ecall, k)
  /\ UNCHANGED << namedVars, edgeIndex, scan, hub, http >>

NextEdges ==
  \/ NewEdgeSource
  \/ EdgeClaim
  \/ IndexFileEdge
  \/ EdgesToStart
  \/ VerifyTask
  \/ FanIn

SpecEdges == Init /\ [][NextEdges]_vars

\* the goroutines of the verification tasks and the goroutine of the call
\* are scheduled as long as they can take a step
SpecEdgesFair ==
  /\ Init /\ [][NextEdges]_vars
  /\ WF_vars(VerifyTask)
  /\ WF_vars(FanIn)

\* ------------------------------------------------------------------------
\* Operations of the streaming queries
\* ------------------------------------------------------------------------

\* the results a client asks for
ScanNs == ((0 - 1)..MaxScan) \cup { maxResults, maxResults + 1 }

\* a request comes from fromHTTP or is built by a caller of the query
Vias == {"http", "caller"}

\* req.N of a request for N results
RequestN(kind, via, N) ==
  IF via = "caller" THEN N
  ELSE IF kind = "recent"
    THEN RecentFromHTTP(Form(Itoa(N), << >>, << >>, "")).N
    ELSE WithAttrFromHTTP(Form(<< >>, Itoa(N), << >>, "")).N

\* the limit the query gives the index scan: req.n() in
\* GetRecentPermanodes, MaxResults: req.N in GetPermanodesWithAttr
scanLimit(kind, reqN) ==
  IF kind = "recent" THEN sanitizeNumResults(reqN) ELSE reqN

\* a client calls GetRecentPermanodes or GetPermanodesWithAttr
StartScan ==
  /\ scan.pc \in {"idle", "done"}
  /\ scan.prod = "returned"
  /\ \E kind \in ScanKinds, via \in Vias, N \in ScanNs :
       scan' = [NewScan(kind, scanLimit(kind, RequestN(kind, via, N)))
                  EXCEPT !.reqN = N, !.via = via]
  /\ UNCHANGED << namedVars, edgeIndex, ecall, hub, http >>

\* the index scan sends an item: into the buffer of ch, or, when ch has no
\* buffer, to the range loop, which accumulates it
ScanEmit ==
  /\ scan.prod = "scanning"
  /\ Len(scan.emitted) < scan.n
  /\ Len(scan.emitted) < MaxScan
  /\ \E item \in ScanItems :
       IF chanCap(scan.kind) = 0
         THEN /\ scan.pc = "drain"
              /\ scan' = [scan EXCEPT !.emitted = Append(scan.emitted, item),
                                      !.items = accumulate(scan.items, item)]
         ELSE /\ Len(scan.ch) < chanCap(scan.kind)
              /\ scan' = [scan EXCEPT !.emitted = Append(scan.emitted, item),
                                      !.ch = Append(scan.ch, item)]
  /\ UNCHANGED << namedVars, edgeIndex, ecall, hub, http >>

\* the range loop takes an item from the buffer of ch
ConsumerTake ==
  /\ scan.pc = "drain"
  /\ scan.ch # << >>
  /\ scan' = [scan EXCEPT !.ch = Tail(scan.ch),
                          !.items = accumulate(scan.items, Head(scan.ch))]
  /\ UNCHANGED << namedVars, edgeIndex, ecall, hub, http >>

\* the index scan ends, with an error or without: it closes ch
ScanClose ==
  /\ scan.prod = "scanning"
  /\ \E err \in {"", "scan"} :
       scan' = [scan EXCEPT !.closed = TRUE, !.prod = "closed", !.scanErr = err]
  /\ UNCHANGED << namedVars, edgeIndex, ecall, hub, http >>

\* errch <- the result of the scan; the send waits for room in errch
ScanReturn ==
  /\ scan.prod = "closed"
  /\ Len(scan.errch) < errchCap(scan.kind)
  /\ scan' = [scan EXCEPT !.prod = "returned", !.errch = << scan.scanErr >>]
  /\ UNCHANGED << namedVars, edgeIndex, ecall, hub, http >>

\* the range loop ends
ConsumerDrained ==
  /\ scan.pc = "drain"
  /\ drained(scan)
  /\ scan' = afterDrain(scan)
  /\ UNCHANGED << namedVars, edgeIndex, ecall, hub, http >>

\* the query receives from errch
ConsumerErrCheck ==
  /\ scan.pc = "errcheck"
  /\ scan.errch # << >>
  /\ scan' = errCheck(scan)
  /\ UNCHANGED << namedVars, edgeIndex, ecall, hub, http >>

\* the query builds the describe metadata
ConsumerMeta ==
  /\ scan.pc = "meta"
  /\ \E fails \in BOOLEAN : scan' = metaMapThumbs(scan, fails)
  /\ UNCHANGED << namedVars, edgeIndex, ecall, hub, http >>

NextScan ==
  \/ StartScan
  \/ ScanEmit
  \/ ConsumerTake
  \/ ScanClose
  \/ ScanReturn
  \/ ConsumerDrained
  \/ ConsumerErrCheck
  \/ ConsumerMeta

SpecScan == Init /\ [][NextScan]_vars

\* the index scan closes ch and returns, and the goroutines of the query
\* and of the scan are scheduled as long as they can take a step
SpecScanFair ==
  /\ Init /\ [][NextScan]_vars
  /\ WF_vars(ScanClose)
  /\ WF_vars(ScanReturn)
  /\ WF_vars(ConsumerTake)
  /\ WF_vars(ConsumerDrained)
  /\ WF_vars(ConsumerErrCheck)
  /\ WF_vars(ConsumerMeta)

\* ------------------------------------------------------------------------
\* Operations of the notification hub
\* ------------------------------------------------------------------------

\* the index notifies the listener channel of a received blob
BlobArrives ==
  /\ hub.arrived < MaxArrivals
  /\ Len(hub.listener) < buffered
  /\ \E br \in ArrivingBlobs :
       hub' = [hub EXCEPT !.listener = Append(hub.listener, br),
                          !.arrived = hub.arrived + 1]
  /\ UNCHANGED << namedVars, edgeIndex, ecall, scan, http >>

\* the forwarding goroutine of subscribeToNewBlobs receives the next blob
\* from its channel and looks up its metadata
ForwardLookup ==
  /\ hub.fwd = << >>
  /\ hub.listener # << >>
  /\ \E metaOK \in BOOLEAN : hub' = lookup(hub, metaOK)
  /\ UNCHANGED << namedVars, edgeIndex, ecall, scan, http >>

\* the forwarding goroutine sends the type of the blob it holds, or skips
\* the blob; its send blocks while the input channel of the hub is full
Forward ==
  /\ hub.fwd # << >>
  /\ hub.fwd[1].ok => Len(hub.newBlobRecv) < newBlobRecvCap
  /\ hub' = forward(hub, hub.fwd[1].br, hub.fwd[1].ok)
  /\ UNCHANGED << namedVars, edgeIndex, ecall, scan, http >>

\* the hub loop takes a register message
HubRegister ==
  /\ \E c \in Subscribers \ hub.conns :
       hub' = [hub EXCEPT !.conns = hub.conns \cup {c},
                          !.did = "register", !.skipped = {}]
  /\ UNCHANGED << namedVars, edgeIndex, ecall, scan, http >>

\* the hub loop takes an unregister message: the connection is removed and
\* its queue is closed
HubUnregister ==
  /\ \E c \in hub.conns :
       hub' = [hub EXCEPT !.conns = hub.conns \ {c},
                          !.queue[c] = << >>,
                          !.did = "unregister", !.skipped = {}]
  /\ UNCHANGED << namedVars, edgeIndex, ecall, scan, http >>

\* the hub loop takes a type from its input channel and broadcasts it
HubBroadcast ==
  /\ hub.newBlobRecv # << >>
  /\ canBroadcast(hub)
  /\ hub' = [hub EXCEPT !.newBlobRecv = Tail(hub.newBlobRecv),
                        !.queue = deliver(hub, Head(hub.newBlobRecv)),
                        !.did = "broadcast",
                        !.skipped = { c \in hub.conns : ~HasRoom(hub, c) }]
  /\ UNCHANGED << namedVars, edgeIndex, ecall, scan, http >>

\* the writer of a connection sends the next queued message to its client
SubscriberWrite ==
  /\ \E c \in hub.conns :
       /\ hub.queue[c] # << >>
       /\ hub' = [hub EXCEPT !.queue[c] = Tail(hub.queue[c])]
  /\ UNCHANGED << namedVars, edgeIndex, ecall, scan, http >>

NextHub ==
  \/ BlobArrives
  \/ ForwardLookup
  \/ Forward
  \/ HubRegister
  \/ HubUnregister
  \/ HubBroadcast
  \/ SubscriberWrite

SpecHub == Init /\ [][NextHub]_vars

\* ------------------------------------------------------------------------
\* Operations on requests
\* ------------------------------------------------------------------------

\* The functions and handlers below keep no state between calls: the
\* outcome of a call depends on its input only, and a behaviour makes one.

\* a caller passes n to sanitizeNumResults
CallSanitizeNumResults ==
  /\ http.op = "none"
  /\ \E n \in NumInputs :
       http' = [op |-> "sanitizeNumResults", in |-> n, out |-> sanitizeNumResults(n)]
  /\ UNCHANGED << namedVars, edgeIndex, ecall, scan, hub >>

\* a caller builds a RecentRequest or a WithAttrRequest with a thumbnail
\* size and the query takes req.thumbnailSize()
CallThumbnailSize ==
  /\ http.op = "none"
  /\ \E kind \in ScanKinds, v \in ThumbInputs :
       http' = [op |-> "thumbnailSize",
                in |-> [kind |-> kind, ThumbnailSize |-> v],
                out |-> IF kind = "recent" THEN RecentThumbnailSize(v)
                                           ELSE WithAttrThumbnailSize(v)]
  /\ UNCHANGED << namedVars, edgeIndex, ecall, scan, hub >>

\* a client sends a request; the form matters to the handlers that parse it
Request ==
  /\ http.op = "none"
  /\ \E method \in Methods, suffix \in Suffixes, opFails \in BOOLEAN,
        n \in NumParams, max \in NumParams, thumbnails \in ThumbParams,
        permanode \in RefParams :
       LET form == Form(n, max, thumbnails, permanode)
           key == TrimPrefix(suffix)
           parsed == Len(key) = 1 /\ key[1] \in ParsedEndpoints /\ method = "GET"
           reads(e) == parsed /\ key[1] = e
       IN /\ ~reads("recent") => n = << >>
          /\ ~reads("permanodeattr") => max = << >>
          /\ ~(reads("recent") \/ reads("permanodeattr")) => thumbnails = << >>
          /\ ~reads("claims") => permanode = ""
          /\ http' = [op |-> "ServeHTTP",
                      in |-> [method |-> method, suffix |-> suffix, form |-> form],
                      out |-> ServeHTTPOn(method, suffix, form, opFails)]
  /\ UNCHANGED << namedVars, edgeIndex, ecall, scan, hub >>

\* a caller asks for the claims of a permanode
CallGetClaims ==
  /\ http.op = "none"
  /\ \E valid \in BOOLEAN, indexErr \in BOOLEAN, cs \in ClaimLists :
       /\ (~valid \/ indexErr) => cs = << >>
       /\ \E sorted \in sortSort(cs) :
            http' = [op |-> "GetClaims",
                     in |-> [valid |-> valid, indexErr |-> indexErr, Claims |-> cs],
                     out |-> GetClaims(valid, indexErr, sorted)]
  /\ UNCHANGED << namedVars, edgeIndex, ecall, scan, hub >>

\* a client requests edgesto, or a caller calls EdgesTo; a task of the
\* call can fail later on
CallEdgesTo ==
  /\ http.op = "none"
  /\ \E via \in Vias, edges \in EdgeRows, indexFails \in BOOLEAN,
        opFails \in BOOLEAN :
       /\ (indexFails \/ via = "caller") => ~opFails
       /\ http' = [op |-> "EdgesTo",
                   in |-> [via |-> via, edges |-> edges, indexFails |-> indexFails],
                   out |-> [EdgesTo |-> EdgesToOn(edges, indexFails),
                            served |-> IF via = "http"
                                         THEN serveEdgesTo(edges, indexFails, opFails)
                                         ELSE NotServed]]
  /\ UNCHANGED << namedVars, edgeIndex, ecall, scan, hub >>

NextServe ==
  \/ CallSanitizeNumResults
  \/ CallThumbnailSize
  \/ Request
  \/ CallGetClaims
  \/ CallEdgesTo

SpecServe == Init /\ [][NextServe]_vars

\* ------------------------------------------------------------------------
\* Properties of the named aliases
\* ------------------------------------------------------------------------

\* the errors of a collaborator (index, storage) failing during a lookup
CollabErrs == {"query", "fetch"}

\* the permanodes that carry camliNamedSearch = name
AliasPermanodes(name) ==
  QueryPermanodes(permanodes, claims, "camliNamedSearch", name)

\* every response GetNamed(name) can give on a storage whose collaborators
\* work
GetNamedOutcomesOn(bs, ps, cs, name) ==
  { GetNamedOn(bs, ps, cs, name, "none", f) : f \in FirstMatches(ps, cs, name) }

GetNamedOutcomes(name) == GetNamedOutcomesOn(blobs, permanodes, claims, name)

\* some camliContent claim of pn, the one with the latest date, has this value
LatestContentIs(pn, value) ==
  \E i \in 1..Len(claims) :
    /\ claims[i].pn = pn
    /\ claims[i].attr = "camliContent"
    /\ claims[i].value = value
    /\ \A j \in 1..Len(claims) :
         (claims[j].pn = pn /\ claims[j].attr = "camliContent")
           => claims[j].date <= claims[i].date

\* C1: after any sequence of SetNamed calls, successful or failing, at most
\* one permanode carries camliNamedSearch = name, for every name.
C1_OnePermanodePerName ==
  \A n \in Names : Cardinality(AliasPermanodes(n)) <= 1

\* C2: a GetNamed(name) that follows a successful SetNamed(name, s) returns
\* Named = name and Substitute = s, and the successful calls that follow it
\* for that name return the permanode ref it returned.
C2Step ==
  (/\ last.op = "SetNamed"
   /\ last.err = "none"
   /\ last'.Named = last.Named)
  => /\ (last'.op = "GetNamed" /\ last'.err \notin CollabErrs)
          => /\ last'.err = "none"
             /\ last'.Substitute = last.arg
             /\ last'.PermaRef = last.PermaRef
     /\ (last'.op = "SetNamed" /\ last'.err = "none")
          => last'.PermaRef = last.PermaRef

C2_RoundTripStableRef == [][C2Step]_vars

\* C3: when SetNamed(name, s) has failed in its write sequence and the
\* retried SetNamed(name, s) succeeds, the GetNamed(name) that follows
\* succeeds and returns s.
C3Step ==
  (/\ last.op = "SetNamed"
   /\ last.err = "none"
   /\ last.retry
   /\ last'.op = "GetNamed"
   /\ last'.Named = last.Named
   /\ last'.err \notin CollabErrs)
  => /\ last'.err = "none"
     /\ last'.Substitute = last.arg

C3_RetryConverges == [][C3Step]_vars

\* a substitute that is empty, or neither a query expression nor a JSON
\* constraint document
InvalidSubstitute(in) ==
  \/ in = EmptyText
  \/ ~ParsesAsExpression(in) /\ ~DecodesAsConstraint(in)

\* C4: SetNamed with an empty substitute, or one that is neither a query
\* expression nor a JSON constraint document, returns an error and writes
\* no content blob, no permanode and no claim.
C4Step ==
  (last'.op = "SetNamed" /\ InvalidSubstitute(last'.arg))
  => /\ last'.err # "none"
     /\ last'.writes = << >>
     /\ UNCHANGED << blobs, permanodes, claims >>

C4_ValidateBeforeWrite == [][C4Step]_vars

C4_Witness ==
  /\ last.op = "SetNamed"
  /\ last.arg \in { Literal, BadJSON }
  /\ last.err = "input"
  /\ claims # << >>

\* C5: a SetNamed that fails after it has written the content blob adds no
\* permanode and no claim, and GetNamed returns for every name what it
\* returned before the call.
C5Step ==
  (/\ last'.op = "SetNamed"
   /\ last'.err = "storage"
   /\ Len(last'.writes) >= 1)
  => /\ UNCHANGED << permanodes, claims >>
     /\ \A n \in Names :
          GetNamedOutcomesOn(blobs', permanodes', claims', n) = GetNamedOutcomes(n)

C5_OnlyContentBlobLeft == [][C5Step]_vars

\* C6: every successful SetNamed of a text returns the ref of the one blob
\* that holds the text, two calls in a row with the same text return the
\* same SubstRef, and a call whose text is already stored adds no blob.
C6Inv ==
  (last.op = "SetNamed" /\ last.err = "none")
  => { b \in blobs : b.text = last.arg }
       = { [ref |-> last.SubstRef, text |-> last.arg] }

C6Step ==
  last'.op = "SetNamed"
  => /\ blobs \subseteq blobs'
     /\ (\E b \in blobs : b.text = last'.arg) => blobs' = blobs
     /\ (/\ last.op = "SetNamed" /\ last.err = "none"
         /\ last'.err = "none" /\ last'.arg = last.arg)
          => last'.SubstRef = last.SubstRef

C6_SameTextSameRef == [](C6Inv) /\ [][C6Step]_vars

C6_Witness ==
  /\ last.op = "SetNamed"
  /\ last.err = "none"
  /\ Cardinality({ i \in 1..Len(claims) :
                     /\ claims[i].attr = "camliContent"
                     /\ claims[i].value = RefString(last.SubstRef) }) >= 2

\* C7: after a successful SetNamed(name, s1) followed by a successful
\* SetNamed(name, s2), GetNamed(name) returns s2 and the ref of s2, and the
\* camliContent claim for s1 is still among the claims.
C7Step ==
  (/\ last.op = "SetNamed" /\ last.err = "none"
   /\ last'.op = "SetNamed" /\ last'.err = "none"
   /\ last'.Named = last.Named)
  => /\ \A r \in GetNamedOutcomesOn(blobs', permanodes', claims', last'.Named) :
          /\ r.err = "none"
          /\ r.Substitute = last'.arg
          /\ r.SubstRef = last'.SubstRef
     /\ \E i \in 1..Len(claims') :
          /\ claims'[i].pn = last.PermaRef
          /\ claims'[i].attr = "camliContent"
          /\ claims'[i].value = RefString(last.SubstRef)

C7_LatestClaimWins == [][C7Step]_vars

\* C8: GetNamed(name) fails with not-found exactly when no permanode has
\* camliNamedSearch = name; when it succeeds it returns a permanode with
\* that name, the ref in its latest camliContent claim and the text of the
\* blob with that ref; it succeeds when every match resolves to a stored
\* blob; it writes nothing.
C8Step ==
  last'.op = "GetNamed"
  => LET m == AliasPermanodes(last'.Named)
     IN /\ UNCHANGED << blobs, permanodes, claims >>
        /\ (m = {} /\ last'.err # "query") => last'.err = "notfound"
        /\ last'.err = "notfound" => m = {}
        /\ last'.err = "none"
             => /\ last'.PermaRef \in m
                /\ LatestContentIs(last'.PermaRef, RefString(last'.SubstRef))
                /\ [ref |-> last'.SubstRef, text |-> last'.Substitute] \in blobs
        /\ (/\ m # {}
            /\ last'.err \notin CollabErrs
            /\ \A p \in m : \E b \in blobs : LatestContentIs(p, RefString(b.ref)))
             => last'.err = "none"

C8_GetNamedResolves == [][C8Step]_vars

\* GetNamed has answered from a permanode that SetNamed did not write
C8_Witness ==
  /\ last.op = "GetNamed"
  /\ last.err = "none"
  /\ last.Substitute = TagCats
  /\ camputs = 4
  /\ Len(claims) = 2

\* C9: a SetNamed for one name changes for no other name what GetNamed
\* returns (error, substitute, permanode ref and substitute ref).
C9Step ==
  last'.op = "SetNamed"
  => \A a \in Names \ { last'.Named } :
       GetNamedOutcomesOn(blobs', permanodes', claims', a) = GetNamedOutcomes(a)

C9_OtherAliasesUnchanged == [][C9Step]_vars

C9_Witness ==
  /\ last.op = "SetNamed"
  /\ last.err = "none"
  /\ \E a \in Names \ { last.Named } :
       /\ aliases[a] # EmptyText
       /\ \E r \in GetNamedOutcomes(a) : r.err = "none" /\ r.Substitute = aliases[a]

\* C10: once SetNamed(name, s) has succeeded, a query for named:name returns
\* the permanodes that match s, those created after the SetNamed included.
C10Step ==
  (/\ last'.op = "Query"
   /\ last'.arg[1].kw = "named"
   /\ aliases[last'.arg[1].arg] # EmptyText
   /\ last'.err \notin CollabErrs)
  => /\ last'.err = "none"
     /\ last'.Blobs = MatchesText(permanodes, claims, aliases[last'.arg[1].arg])

C10_NamedQueryExpands == [][C10Step]_vars

\* the writes of a SetNamed that meets no failure, whether its GetNamed
\* found the alias or not
AllWrites(aliasFound) ==
  << "content" >>
    \o (IF aliasFound THEN << >>
                      ELSE << "permanode", "camliNamedSearch", "title" >>)
    \o << "camliContent" >>

\* s is the beginning of t and shorter than t
IsProperPrefix(s, t) == Len(s) < Len(t) /\ s = SubSeq(t, 1, Len(s))

EdgesToReturned == ecall.pc = "done" /\ ~ecall.resp.nil

\* the sources of the rows the call got from the index
RawRows == 1..Len(ecall.edges)

\* the response has an item from this source with this type
InResult(from, fromType) ==
  \E n \in 1..Len(ecall.resp.EdgesTo) :
    /\ ecall.resp.EdgesTo[n].From = from
    /\ ecall.resp.EdgesTo[n].FromType = fromType

\* the current attributes of pn have ToRef as the value of a blobref-valued
\* attribute
Live(pn) ==
  /\ pn \in permanodes
  /\ \E c \in ClaimSet(claims) :
       /\ c.pn = pn
       /\ IsBlobReferenceAttribute(c.attr)
       /\ PermanodeAttr(claims, pn, c.attr) = RefString(ToRef)

\* an attribute of pn had the value ToRef and a later claim has set it to
\* another value, and no attribute of pn has the value ToRef now
Overwritten(pn) ==
  /\ \E i, j \in 1..Len(claims) :
       /\ i < j
       /\ claims[i].pn = pn /\ claims[j].pn = pn
       /\ IsBlobReferenceAttribute(claims[i].attr)
       /\ claims[j].attr = claims[i].attr
       /\ claims[i].value = RefString(ToRef)
       /\ claims[j].value # RefString(ToRef)
  /\ ~Live(pn)

\* C11: when the index still has the row P -> ToRef of an attribute that a
\* later claim has set to another value, an EdgesTo(ToRef) that returns a
\* response does not have P in it.
C11_StaleEdgeNotReported ==
  EdgesToReturned
  => \A k \in RawRows :
       (/\ ecall.edges[k].FromType = "permanode"
        /\ Overwritten(ecall.edges[k].From)
        /\ ecall.edges[k].From \notin ecall.dirty)
       => \A t \in {"permanode", "file"} : ~InResult(ecall.edges[k].From, t)

C11_Witness ==
  /\ EdgesToReturned
  /\ \E k \in RawRows :
       /\ ecall.edges[k].FromType = "permanode"
       /\ Overwritten(ecall.edges[k].From)
       /\ ecall.edges[k].From \notin ecall.dirty
       /\ ecall.task[k] = "sent"

\* C12: in a response of EdgesTo a row from a permanode is reported exactly
\* when the current attributes of the permanode have ToRef as a value of a
\* blobref-valued attribute, and a row from another source is reported with
\* its own source type.
C12_VerifiedOrPassedThrough ==
  EdgesToReturned
  => \A k \in RawRows :
       LET e == ecall.edges[k]
       IN /\ (e.FromType = "permanode" /\ e.From \notin ecall.dirty)
               => (InResult(e.From, "permanode") <=> Live(e.From))
          /\ e.FromType # "permanode"
               => /\ InResult(e.From, e.FromType)
                  /\ ~InResult(e.From, "permanode")

C12_Witness ==
  /\ EdgesToReturned
  /\ ecall.dirty = {}
  /\ \E k \in RawRows : ecall.edges[k].FromType = "file"
  /\ \E k \in RawRows :
       /\ ecall.edges[k].FromType = "permanode"
       /\ InResult(ecall.edges[k].From, "permanode")
  /\ \E k \in RawRows :
       /\ ecall.edges[k].FromType = "permanode"
       /\ ~InResult(ecall.edges[k].From, "permanode")

\* s is t with some of its elements left out
RECURSIVE IsSubsequence(_, _)
IsSubsequence(s, t) ==
  IF s = << >> THEN TRUE
  ELSE IF t = << >> THEN FALSE
  ELSE IF Head(s) = Head(t) THEN IsSubsequence(Tail(s), Tail(t))
  ELSE IsSubsequence(s, Tail(t))

\* C13: the edges in a response of EdgesTo are in the order of the rows the
\* index returned.
C13_OriginalOrder ==
  EdgesToReturned => IsSubsequence(ecall.resp.EdgesTo, ecall.edges)

\* C14: when a verification task has reported a describe error to EdgesTo,
\* EdgesTo returns a nil response with the error of a task, and no edges.
C14_ErrorMeansNoEdges ==
  ecall.pc = "done"
  => /\ (\E k \in RawRows : ecall.task[k] = "sent" /\ ecall.res[k].err # "")
          => ecall.err # ""
     /\ ecall.err # ""
          => /\ ecall.resp = NilResponse
             /\ \E k \in RawRows :
                  ecall.task[k] = "sent" /\ ecall.res[k].err = ecall.err

C14_Witness ==
  /\ ecall.pc = "done"
  /\ ecall.err # ""
  /\ \E n \in 1..Len(ecall.edgeItems) : ecall.edgeItems[n].FromType = "file"
  /\ \E n \in 1..Len(ecall.edgeItems) : ecall.edgeItems[n].FromType = "permanode"

\* C15: when EdgesTo returns it has dispatched one task for every row from a
\* permanode, every task has sent its one result, and EdgesTo has received
\* as many results as it dispatched tasks.
C15_OneResultPerTask ==
  ecall.pc = "done"
  => /\ ecall.verifying
          = Cardinality({ k \in RawRows : ecall.edges[k].FromType = "permanode" })
     /\ \A k \in RawRows :
          ecall.task[k] = (IF ecall.edges[k].FromType = "permanode"
                             THEN "sent" ELSE "none")
     /\ ecall.i = ecall.verifying

\* the verification task of row k has not returned
TaskRunning(k) ==
  /\ k <= Len(ecall.task)
  /\ ecall.task[k] \in {"spawned", "ready"}

\* C33: every verification task that EdgesTo spawned terminates in the end,
\* also when EdgesTo returned early on the error of another task: none stays
\* blocked in its send on resc.
C33_TasksTerminate ==
  \A k \in 1..MaxEdges : TaskRunning(k) ~> ~TaskRunning(k)

\* ------------------------------------------------------------------------
\* Properties of the streaming queries
\* ------------------------------------------------------------------------

\* the query has returned a response and no error
ScanReturned == scan.pc = "done" /\ ~scan.resp.nil

\* C16: the items of a response of a streaming query are the items the
\* index scan emitted, in the order of their emission, and while the query
\* runs the accumulated items followed by the buffered ones are the
\* emitted ones.
C16_EmissionOrder ==
  /\ scan.pc = "drain" => scan.emitted = scan.items \o scan.ch
  /\ ScanReturned => scan.resp.items = scan.emitted

C16_Witness ==
  /\ ScanReturned
  /\ Len(scan.resp.items) = MaxScan
  /\ scan.resp.items[1] # scan.resp.items[2]

\* C17: when a streaming query has received from the error channel, the
\* result channel is closed and empty and every emitted item has been
\* accumulated.
C17_DrainThenCheck ==
  scan.errRecv
  => /\ scan.closed
     /\ scan.ch = << >>
     /\ scan.items = scan.emitted

C17_Witness ==
  /\ scan.errRecv
  /\ scan.kind = "withattr"
  /\ scan.scanErr # ""
  /\ Len(scan.emitted) >= 2

\* C18: a streaming query whose index scan ended with an error returns a
\* nil response and the error of the scan.
C18_ScanErrorIsReturned ==
  (scan.pc = "done" /\ scan.scanErr # "")
  => /\ scan.resp = NilItems
     /\ scan.err = scan.scanErr

\* the smaller of two numbers
Min(a, b) == IF a < b THEN a ELSE b

C23_ScanLimitSanitized ==
  scan.pc # "idle"
  => scan.n = (IF scan.reqN <= 0 \/ scan.reqN > 1000 THEN 50 ELSE scan.reqN)

\* the query has been called and has not returned
QueryRunning == scan.pc \notin {"idle", "done"}

\* the goroutine with the index scan has not ended
ProducerRunning == scan.prod # "returned"

\* C34: with an index scan that closes ch and returns, a streaming query
\* returns and its goroutine ends, on every return path; errch never holds
\* more than the one value it has room for, so the send of the scan's
\* result does not block, also when the query never receives from errch.
C34_QueryAndProducerTerminate ==
  /\ [](Len(scan.errch) <= 1)
  /\ QueryRunning ~> ~QueryRunning
  /\ ProducerRunning ~> ~ProducerRunning

\* the by-attribute query has returned the describe error and the result
\* of the scan lies unread in errch
C34_Witness ==
  /\ scan.kind = "withattr"
  /\ scan.pc = "done"
  /\ scan.err = "meta"
  /\ ~scan.errRecv
  /\ scan.prod = "returned"
  /\ scan.errch # << >>

\* ------------------------------------------------------------------------
\* Properties of the notification hub
\* ------------------------------------------------------------------------

\* the step is a broadcast: only the hub loop takes from its input channel
IsBroadcast ==
  /\ hub.newBlobRecv # << >>
  /\ hub'.newBlobRecv = Tail(hub.newBlobRecv)

\* C19: a broadcast of a type appends it once to the queue of every
\* subscriber that is registered when the hub takes the type and has room,
\* and changes the queue of no subscriber that is not registered then; a
\* subscriber that registers starts with an empty queue.
C19Step ==
  /\ IsBroadcast
       => \A c \in Subscribers :
            /\ (c \in hub.conns /\ Len(hub.queue[c]) < MaxQueue)
                 => hub'.queue[c] = Append(hub.queue[c], Head(hub.newBlobRecv))
            /\ c \notin hub.conns => hub'.queue[c] = hub.queue[c]
  /\ \A c \in hub'.conns \ hub.conns : hub'.queue[c] = << >>

C19_BroadcastToRegistered == [][C19Step]_vars

C19_Witness ==
  /\ hub.did = "broadcast"
  /\ hub.arrived >= 2
  /\ \E c \in hub.conns : Len(hub.queue[c]) = 1
  /\ \E c \in Subscribers : c \notin hub.conns

\* the queue of no subscriber is longer than its capacity
QueuesBounded == \A c \in Subscribers : Len(hub.queue[c]) <= MaxQueue

\* C20: no queue ever exceeds its capacity; a broadcast leaves the queue of
\* a full subscriber as it is and still reaches the subscribers with room;
\* and the hub loop can always take the next type from its input channel.
C20Step ==
  IsBroadcast
  => \A c \in hub.conns :
       IF Len(hub.queue[c]) >= MaxQueue
         THEN hub'.queue[c] = hub.queue[c]
         ELSE Len(hub'.queue[c]) = Len(hub.queue[c]) + 1

C20_FullQueueNeverBlocks ==
  /\ [](QueuesBounded)
  /\ [](hub.newBlobRecv # << >> => ENABLED HubBroadcast)
  /\ [][C20Step]_vars

C20_Witness ==
  /\ hub.did = "broadcast"
  /\ hub.skipped # {}
  /\ \E c \in hub.conns \ hub.skipped : hub.queue[c] # << >>

\* the forwarder receives a blob from its channel
IsLookup == hub.fwd = << >> /\ hub'.fwd # << >>

\* the forwarder is done with the blob it holds
IsForwarded == hub.fwd # << >> /\ hub'.fwd # hub.fwd

\* C32: the forwarder handles the arriving blobs one at a time in the order
\* of their arrival.  The type of a blob whose lookup succeeded is sent to
\* the input channel of the hub behind the types that wait there, and only
\* when the channel has room, so no type is dropped or overtaken; a blob
\* whose lookup failed is skipped, and the forwarder goes on to the next.
C32Step ==
  /\ Len(hub'.listener) < Len(hub.listener) => IsLookup
  /\ IsLookup
       => /\ hub.listener # << >>
          /\ hub'.fwd[1].br = Head(hub.listener)
          /\ hub'.listener = Tail(hub.listener)
          /\ hub'.newBlobRecv = hub.newBlobRecv
  /\ IsForwarded
       => /\ hub'.fwd = << >>
          /\ hub'.listener = hub.listener
          /\ IF hub.fwd[1].ok
               THEN /\ Len(hub.newBlobRecv) < newBlobRecvCap
                    /\ hub'.newBlobRecv =
                         Append(hub.newBlobRecv, CamliType(hub.fwd[1].br))
               ELSE hub'.newBlobRecv = hub.newBlobRecv
  /\ (hub'.newBlobRecv # hub.newBlobRecv /\ ~IsForwarded)
       => hub.newBlobRecv # << >> /\ hub'.newBlobRecv = Tail(hub.newBlobRecv)

C32_ForwardInOrder ==
  /\ [](Len(hub.newBlobRecv) <= newBlobRecvCap)
  /\ [](hub.fwd = << >> /\ hub.listener # << >> => ENABLED ForwardLookup)
  /\ [][C32Step]_vars

\* the forwarder holds a type while the input channel of the hub is full,
\* after it has skipped no blob
C32_Witness ==
  /\ hub.fwd # << >>
  /\ hub.fwd[1].ok
  /\ Len(hub.newBlobRecv) = newBlobRecvCap
  /\ hub.newBlobRecv[1] # hub.newBlobRecv[2]

\* ------------------------------------------------------------------------
\* Properties of the requests
\* ------------------------------------------------------------------------

\* C21: sanitizeNumResults(n) is 50 when n <= 0 or n > 1000 and n when
\* 1 <= n <= 1000, and so lies in 1..1000.
C21_SanitizeNumResults ==
  http.op = "sanitizeNumResults"
  => /\ (http.in <= 0 \/ http.in > 1000) => http.out = 50
     /\ (1 <= http.in /\ http.in <= 1000) => http.out = http.in
     /\ http.out \in 1..1000

C21_Witness ==
  /\ http.op = "sanitizeNumResults"
  /\ http.in = 1001
  /\ http.out = 50

\* C24: the thumbnail size of the recent query is 0 for a requested 0, the
\* requested size in 25..800, and 50 for every other size.
C24_RecentThumbnailDefault ==
  (http.op = "thumbnailSize" /\ http.in.kind = "recent")
  => LET v == http.in.ThumbnailSize
     IN /\ v = 0 => http.out = 0
        /\ (25 <= v /\ v <= 800) => http.out = v
        /\ (v # 0 /\ (v < 25 \/ v > 800)) => http.out = 50

C24_Witness ==
  /\ http.op = "thumbnailSize"
  /\ http.in.kind = "recent"
  /\ http.in.ThumbnailSize = 801
  /\ http.out = 50

\* C25: the thumbnail size of the by-attribute query is 0 for a requested 0,
\* 25 for another size below 25, 800 for a size above 800, and the requested
\* size in between.
C25_WithAttrThumbnailClamped ==
  (http.op = "thumbnailSize" /\ http.in.kind = "withattr")
  => LET v == http.in.ThumbnailSize
     IN /\ v = 0 => http.out = 0
        /\ (v # 0 /\ v < 25) => http.out = 25
        /\ v > 800 => http.out = 800
        /\ (25 <= v /\ v <= 800) => http.out = v

C25_Witness ==
  /\ http.op = "thumbnailSize"
  /\ http.in.kind = "withattr"
  /\ http.in.ThumbnailSize < 0
  /\ http.out = 25

\* the request has started a streaming query
StartedQuery ==
  /\ http.op = "ServeHTTP"
  /\ Len(http.out.started) = 1
  /\ http.out.started[1].op \in {"GetRecentPermanodes", "GetPermanodesWithAttr"}

\* C26: a request with thumbnails=0 gets the thumbnail size 0 in both
\* queries; with another number outside 25..800 it gets 50 in the recent
\* query and the nearest of 25 and 800 in the by-attribute query.
C26_ThumbnailsOverHTTP ==
  StartedQuery
  => \A v \in ThumbInputs :
       http.in.form.thumbnails = Itoa(v)
       => LET size == http.out.started[1].thumbnailSize
              recent == http.out.started[1].op = "GetRecentPermanodes"
          IN /\ v = 0 => size = 0
             /\ (v # 0 /\ v < 25) => size = (IF recent THEN 50 ELSE 25)
             /\ v > 800 => size = (IF recent THEN 50 ELSE 800)

\* the endpoints of the GET table and of the POST table
GetEndpoints ==
  {"ws", "recent", "permanodeattr", "describe", "claims", "files", "getnamed",
   "signerattrvalue", "signerpaths", "edgesto"}
PostEndpoints == {"describe", "query", "setnamed"}

\* the request names an endpoint of the table of its method
Routable ==
  LET key == TrimPrefix(http.in.suffix)
  IN /\ Len(key) = 1
     /\ \/ http.in.method = "GET" /\ key[1] \in GetEndpoints
        \/ http.in.method = "POST" /\ key[1] \in PostEndpoints

\* C27: ServeHTTP invokes one handler for a method and suffix of the table
\* of the method, and for every other request it invokes none and writes
\* the envelope with errorType "input".
C27_DispatchOrEnvelope ==
  http.op = "ServeHTTP"
  => /\ Routable => Len(http.out.invoked) = 1
     /\ ~Routable => /\ http.out.invoked = << >>
                     /\ http.out.started = << >>
                     /\ http.out.body = << ErrorEnvelope("input") >>

C27_Witness ==
  /\ http.op = "ServeHTTP"
  /\ http.in.method = "POST"
  /\ http.in.suffix = << "camli", "search", "recent" >>
  /\ http.out.body = << ErrorEnvelope("input") >>

\* the parser of the invoked handler meets a parameter it panics on
ParserPanics ==
  /\ http.op = "ServeHTTP"
  /\ \/ /\ http.out.invoked = << "servePermanodesWithAttr" >>
        /\ http.in.form.max # << >>
        /\ \A v \in NumInputs : http.in.form.max # Itoa(v)
     \/ /\ http.out.invoked = << "serveClaims" >>
        /\ \A r \in AllRefs : http.in.form.permanode # RefString(r)

\* C30: a request whose parser panics on its input has the panic recovered
\* once, writes one error envelope and no other body, and starts no
\* operation.
C30_ParserPanicRecovered ==
  ParserPanics
  => /\ http.out.recovered = 1
     /\ Len(http.out.body) = 1
     /\ http.out.body[1].error
     /\ http.out.started = << >>

C30_Witness ==
  /\ ParserPanics
  /\ http.out.invoked = << "servePermanodesWithAttr" >>
  /\ http.in.form.thumbnails # << >>

\* GetClaims returned the claims of a permanode
ClaimsReturned == http.op = "GetClaims" /\ http.out.err = ""

\* how often a claim occurs in a list
Occurrences(c, cs) == Cardinality({ i \in 1..Len(cs) : cs[i] = c })

\* C28: the claims GetClaims returns are in non-decreasing order of date,
\* and each claim occurs in them as often as in the list the index returned.
C28_ClaimsInDateOrder ==
  ClaimsReturned
  => LET out == http.out.res.Claims
     IN /\ \A i \in 1..(Len(out) - 1) : out[i].Date <= out[i + 1].Date
        /\ Len(out) = Len(http.in.Claims)
        /\ \A c \in Claim : Occurrences(c, out) = Occurrences(c, http.in.Claims)

\* claims of two dates came back in date order, the later one first in the
\* index's list
C28_Witness ==
  /\ ClaimsReturned
  /\ Len(http.in.Claims) = MaxClaims
  /\ http.in.Claims[1].Date > http.in.Claims[MaxClaims].Date
  /\ http.out.res.Claims[1].Date < http.out.res.Claims[MaxClaims].Date

\* the claims of one date, in the order of the list
OfDate(cs, d) == SelectSeq(cs, LAMBDA c : c.Date = d)

\* C29: GetClaims sorts stably: the returned claims of one date are in the
\* order in which the index supplied them.
C29_StableSort ==
  ClaimsReturned
  => \A d \in ClaimDates :
       OfDate(http.out.res.Claims, d) = OfDate(http.in.Claims, d)

\* index.EdgesTo failed in a call of EdgesTo
IndexLookupFailed == http.op = "EdgesTo" /\ http.in.indexFails

\* C35: when index.EdgesTo fails, EdgesTo returns no error value: it
\* panics before it spawns a verification task.  serveEdgesTo recovers the
\* panic and writes one JSON error; a direct caller of EdgesTo has neither
\* a response nor an error result.
C35_IndexFailurePanics ==
  IndexLookupFailed
  => /\ http.out.EdgesTo.panic
     /\ http.out.EdgesTo.call.resp.nil
     /\ http.out.EdgesTo.call.err = ""
     /\ http.out.EdgesTo.call.verifying = 0
     /\ \A k \in DOMAIN http.out.EdgesTo.call.task :
          http.out.EdgesTo.call.task[k] = "none"
     /\ IF http.in.via = "http"
          THEN /\ http.out.served.recovered = 1
               /\ Len(http.out.served.body) = 1
               /\ http.out.served.body[1].error
          ELSE /\ http.out.served.recovered = 0
               /\ http.out.served.body = << >>

\* the lookup failed for a request of a client, with a row from a permanode
\* in the index
C35_Witness ==
  /\ IndexLookupFailed
  /\ http.in.via = "http"
  /\ \E k \in 1..Len(http.in.edges) : http.in.edges[k].FromType = "permanode"
  /\ http.out.served.recovered = 1

====
